---- MODULE Spec2Model ----
(***************************************************************************)
(* Behavioural model of the shikshavani-mvp content pipeline.              *)
(*                                                                         *)
(*   Spec / FairSpec : the UI app (main.py): POST /generate, the           *)
(*                     simulate_generation threads and the /progress       *)
(*                     event streams                                       *)
(*   SpecCleanup     : Master.cleanup_previous_run                         *)
(*   SpecVideo       : concatenate_videos and the cloudrun /final_video    *)
(*                     endpoint                                            *)
(*   SpecAudio       : text_to_speech.generate_audio / batch_generate_audio*)
(*   SpecMaster      : Master.generate_final_outputs and Master.main       *)
(*   SpecReview      : d3_generator.review_and_optimize_code               *)
(*                                                                         *)
(* Every specification constrains all variables; the variables of the      *)
(* other subsystems stay at their initial value.                           *)
(***************************************************************************)
EXTENDS Integers, Sequences, FiniteSets, TLC

VARIABLES
    \* ---- main.py ----
    generation_status,  \* the module-level dict of main.py
    threads,            \* simulate_generation threads, by order of creation
    streams,            \* the /progress generators
    resp,               \* status code of the last /generate response (0: none yet)
    hist,               \* history of the /generate requests: the topic of the last
                        \* one, the accepted request that follows a completed run,
                        \* the number of requests that started no thread
    \* ---- Master.cleanup_previous_run ----
    dirs,               \* the output directories: do they exist, how many files of a
                        \* previous run they hold
    files,              \* the output files of the working directory: do they exist
    cl,                 \* position of cleanup_previous_run
    \* ---- generate_video.py, cloudrun/generate_video.py ----
    fv,                 \* the call of concatenate_videos or the /final_video request
                        \* being served, and what it has done so far
    \* ---- text_to_speech.py ----
    audio_fs,           \* audio/audio_section_<i>.mp3, by section index
    batch,              \* the run of batch_generate_audio
    \* ---- Master.py: generate_final_outputs, main ----
    mscript,            \* script["sections"]: the text of each section
    mfs,                \* the files of the working directory, by path
    workers,            \* the pool's process_section tasks, by section index
    d3,                 \* the d3_generator.py subprocess and its per-section tasks
    mainp,              \* the main process: generate_final_outputs and main
    access,             \* every file access made so far: who, which path, read or write
    \* ---- d3_generator.py: review_and_optimize_code ----
    review              \* the call of review_and_optimize_code: arguments, the
                        \* reviewer's answer, the value returned

uiVars == <<generation_status, threads, streams, resp, hist>>
cleanupVars == <<dirs, files, cl>>
videoVars == <<fv>>
audioVars == <<audio_fs, batch>>
masterVars == <<mscript, mfs, workers, d3, mainp, access>>
reviewVars == <<review>>

vars == <<uiVars, cleanupVars, videoVars, audioVars, masterVars, reviewVars>>

\* the variables an action of one subsystem leaves alone
notUI == <<cleanupVars, videoVars, audioVars, masterVars, reviewVars>>
notCleanup == <<uiVars, videoVars, audioVars, masterVars, reviewVars>>
notVideo == <<uiVars, cleanupVars, audioVars, masterVars, reviewVars>>
notAudio == <<uiVars, cleanupVars, videoVars, masterVars, reviewVars>>
notMaster == <<uiVars, cleanupVars, videoVars, audioVars, reviewVars>>
notReview == <<uiVars, cleanupVars, videoVars, audioVars, masterVars>>

(***************************************************************************)
(* Bounds of the model                                                     *)
(***************************************************************************)
\* length of the reviewer's answer, in tokens
MaxAnswerLen == 3

\* number of files of an earlier run that a failed cleanup has left behind
MaxStaleFiles == 1

\* number of /generate requests
MaxRequests == 2
\* the same, in the specification with fairness
MaxFairRequests == 1
\* seconds of wall-clock time that pass in one Tick
TickSeconds == 60
\* files a previous run may have left in one output directory
MaxOldFiles == 1
\* length of the video_list given to concatenate_videos
MaxVideos == 2
\* sections of output_script.json
MaxSections == 2

(***************************************************************************)
(* main.py                                                                 *)
(***************************************************************************)
None == "None"

\* start_time: None (main.py line 18), kept apart from every elapsed time
NoStartTime == -1

\* simulate_generation runs for 120 seconds (main.py line 32)
SIM_SECONDS == 120

Streams == {"s1"}

\* JSON null as the "topic" of a request or the "text" of a section
JsonNull == "<null>"

\* The "topic" of the request body: a missing key (default ''), blanks, a
\* topic, and JSON null.  Null stands for every body whose topic is not a
\* string and for every body that is not an object: line 72 raises for all.
Topics == {"", "  ", "photosynthesis", JsonNull}

\* str.strip() on the texts above
Strip(t) == IF t \in {"", "  "} THEN "" ELSE t

Min(a, b) == IF a < b THEN a ELSE b
Max(a, b) == IF a > b THEN a ELSE b

\* a message of generation_status: the text and, for the f-string of line 37,
\* the percentage formatted into it (-1: none)
Msg(text, pct) == [text |-> text, pct |-> pct]

\* start_time is kept as the number of seconds that have passed since the
\* datetime.now() it was set from, saturated at SIM_SECONDS: the code only
\* uses (datetime.now() - start_time), compared with 120 or capped by min/max.
Elapsed == generation_status.start_time

\* line 34: min(100, int((elapsed / 120) * 100))
ProgressOf(elapsed) == Min(100, (elapsed * 100) \div SIM_SECONDS)

\* lines 40-47
StageMessage(progress) ==
    IF progress < 30 THEN "Preparing content..."
    ELSE IF progress < 60 THEN "Generating visuals..."
    ELSE IF progress < 90 THEN "Rendering video..."
    ELSE "Finalizing output..."

\* The statement a simulate_generation thread executes next ("done": returned)
ThreadPCs == {"l23", "l24", "l25", "l26", "l27", "l28", "l32", "l33", "l36", "l37",
              "l40", "l51", "l52", "l53", "l59", "done"}

\* the statements of the loop body that use the local variable `progress`
LoopPCs == {"l36", "l37", "l40"}

\* the values (datetime.now() - start_time) takes, and the values of `progress`
ElapsedValues ==
    {Min(SIM_SECONDS, k * TickSeconds) : k \in 0..((SIM_SECONDS \div TickSeconds) + 1)}
LocalProgress == {ProgressOf(e) : e \in ElapsedValues}

\* line 72: data.get('topic', '').strip() raises AttributeError
StripRaises(topic) == topic = JsonNull

\* A thread is told apart only by its argument, its position and its local
\* variable: threads[<<pc, topic, progress>>] is the number of threads started
\* with `topic` whose next statement is pc and whose `progress` is progress
\* (0 where the variable is not set or not used any more).
ThreadStates ==
    {st \in ThreadPCs \X {Strip(t) : t \in {u \in Topics : ~StripRaises(u) /\ Strip(u) # ""}}
               \X LocalProgress : st[1] \in LoopPCs \/ st[3] = 0}

\* the event a stream is about to yield (estimated_time, line 98, is derived
\* from start_time alone and is not carried)
NoData == [status |-> "", progress |-> 0, message |-> Msg("", -1)]

\* lines 12-19
InitUI ==
    /\ generation_status = [in_progress |-> FALSE, completed |-> FALSE,
                            topic |-> None, progress |-> 0,
                            message |-> Msg("", -1), start_time |-> NoStartTime]
    /\ threads = [st \in ThreadStates |-> 0]
    /\ streams = [s \in Streams |->
                    [pc |-> "idle", data |-> NoData, sent |-> FALSE, after |-> FALSE,
                     watch |-> -1]]
    /\ resp = 0
    /\ hist = [req |-> None, fresh |-> -1, refused |-> 0]

RECURSIVE SumOver(_, _)
SumOver(f, S) ==
    IF S = {} THEN 0
    ELSE LET x == CHOOSE y \in S : TRUE IN f[x] + SumOver(f, S \ {x})

\* threads created so far, and those that have not returned yet
Started == SumOver(threads, ThreadStates)
Running == SumOver(threads, {st \in ThreadStates : st[1] # "done"})

\* threads that have executed line 51: their generation has completed
Finished == SumOver(threads, {st \in ThreadStates : st[1] \in {"l52", "l53", "l59", "done"}})

TopicMissingNever(topic) == FALSE

\* line 74: if not topic
TopicMissing(topic) == topic = ""

\* line 77: the check that guards the creation of the thread
InProgressCheck == generation_status.in_progress

\* POST /generate, lines 69-88.  The handler only reads generation_status;
\* the new thread has been started but has not run its first statement.
GenerateUpTo(topic, limit) ==
    /\ Started + hist.refused < limit
    /\ IF StripRaises(topic)
       THEN /\ resp' = 500                     \* the exception ends the request
            /\ UNCHANGED threads
            /\ hist' = [hist EXCEPT !.req = topic, !.refused = @ + 1]
       ELSE IF TopicMissing(Strip(topic))
       THEN /\ resp' = 400
            /\ UNCHANGED threads
            /\ hist' = [hist EXCEPT !.req = topic, !.refused = @ + 1]
       ELSE IF InProgressCheck
       THEN /\ resp' = 429
            /\ UNCHANGED threads
            /\ hist' = [hist EXCEPT !.req = topic, !.refused = @ + 1]
       ELSE /\ threads' = [threads EXCEPT ![<<"l23", Strip(topic), 0>>] = @ + 1]
            /\ resp' = 200
            \* history: this request is accepted after every earlier generation
            \* has completed and returned
            /\ hist' = [hist EXCEPT !.req = topic,
                            !.fresh = IF Started > 0 /\ Running = 0 THEN Finished
                                      ELSE hist.fresh]
    /\ UNCHANGED <<generation_status, streams>>
    /\ UNCHANGED notUI

Generate(topic) == GenerateUpTo(topic, MaxRequests)

\* one thread at st moves on to statement `next` with `progress` as given
StepWith(st, next, progress) ==
    threads' = [threads EXCEPT ![st] = @ - 1, ![<<next, st[2], progress>>] = @ + 1]

\* one thread at st moves on to statement `next`
Step(st, next) == StepWith(st, next, 0)

At(st, pc) == st[1] = pc /\ threads[st] > 0

SetStatus(st, field, value, next) ==
    /\ generation_status' = [generation_status EXCEPT ![field] = value]
    /\ Step(st, next)
    /\ UNCHANGED <<streams, resp, hist, notUI>>

\* lines 23-28, one statement at a time
SimInit(st) ==
    \/ /\ At(st, "l23")
       /\ SetStatus(st, "in_progress", TRUE, "l24")
    \/ /\ At(st, "l24")
       /\ SetStatus(st, "completed", FALSE, "l25")
    \/ /\ At(st, "l25")
       /\ SetStatus(st, "topic", st[2], "l26")
    \/ /\ At(st, "l26")
       /\ SetStatus(st, "progress", 0, "l27")
    \/ /\ At(st, "l27")
       /\ SetStatus(st, "message", Msg("Starting simulation...", -1), "l28")
    \/ /\ At(st, "l28")
       /\ SetStatus(st, "start_time", 0, "l32")

\* line 32: the loop condition
SimLoopTest(st) ==
    /\ At(st, "l32")
    /\ Step(st, IF Elapsed < SIM_SECONDS THEN "l33" ELSE "l51")
    /\ UNCHANGED <<generation_status, streams, resp, hist, notUI>>

\* lines 33-49: the loop body, one access to generation_status at a time;
\* time.sleep(1) leads back to the test
SimLoopBody(st) ==
    \/ /\ At(st, "l33")                                       \* 33-34
       /\ StepWith(st, "l36", ProgressOf(Elapsed))
       /\ UNCHANGED <<generation_status, streams, resp, hist, notUI>>
    \/ /\ At(st, "l36")                                       \* 36
       /\ generation_status' = [generation_status EXCEPT !.progress = st[3]]
       /\ StepWith(st, "l37", st[3])
       /\ UNCHANGED <<streams, resp, hist, notUI>>
    \/ /\ At(st, "l37")                                       \* 37
       /\ generation_status' =
              [generation_status EXCEPT !.message = Msg("Simulating generation", st[3])]
       /\ StepWith(st, "l40", st[3])
       /\ UNCHANGED <<streams, resp, hist, notUI>>
    \/ /\ At(st, "l40")                                       \* 40-49
       /\ SetStatus(st, "message", Msg(StageMessage(st[3]), -1), "l32")

\* line 51
SimMarkCompleted(st) ==
    /\ At(st, "l51")
    /\ SetStatus(st, "completed", TRUE, "l52")

\* lines 52-53 and the finally clause, line 59
SimFinish(st) ==
    \/ /\ At(st, "l52")
       /\ SetStatus(st, "message", Msg("Simulation complete!", -1), "l53")
    \/ /\ At(st, "l53")
       /\ SetStatus(st, "progress", 100, "l59")
    \/ /\ At(st, "l59")
       /\ SetStatus(st, "in_progress", FALSE, "done")

\* wall-clock time passes
Tick ==
    /\ generation_status.start_time # NoStartTime
    /\ generation_status.start_time < SIM_SECONDS
    /\ generation_status' = [generation_status EXCEPT !.start_time =
                                Min(SIM_SECONDS, @ + TickSeconds)]
    /\ UNCHANGED <<threads, streams, resp, hist, notUI>>

\* GET /progress, lines 90-109: the response generator starts
OpenStream(s) ==
    /\ streams[s].pc = "idle"
    \* history: the stream is opened while the request accepted after a
    \* completed run is still waiting for its own generation to complete
    /\ streams' = [streams EXCEPT ![s].pc = "l95",
                       ![s].watch = IF hist.fresh = Finished THEN Finished ELSE -1]
    /\ UNCHANGED <<generation_status, threads, resp, hist, notUI>>

\* lines 94-99: the dict display reads the fields of generation_status one
\* after the other; `data` is the dict being built
StreamRead(s) ==
    /\ \/ /\ streams[s].pc = "l95"
          /\ streams' = [streams EXCEPT ![s].pc = "l96",
                 ![s].data = [NoData EXCEPT !.status =
                                 IF generation_status.in_progress
                                 THEN "in_progress" ELSE "error"]]
       \/ /\ streams[s].pc = "l96"
          /\ streams' = [streams EXCEPT ![s].pc = "l97",
                 ![s].data.progress = generation_status.progress]
       \/ /\ streams[s].pc = "l97"
          /\ streams' = [streams EXCEPT ![s].pc = "l101",
                 ![s].data.message = generation_status.message]
    /\ UNCHANGED <<generation_status, threads, resp, hist, notUI>>

AfterCompletedNoBreak == "l95"

\* where the generator goes after yielding a 'completed' event (line 104: break)
AfterCompleted == "closed"

\* lines 101-108: yield the event.  `sent` records that a 'completed' event has
\* been yielded, `after` that an event was yielded after a 'completed' one.
StreamEmit(s) ==
    /\ streams[s].pc = "l101"
    /\ IF generation_status.completed
       THEN streams' = [streams EXCEPT ![s].pc = AfterCompleted,
                            ![s].data.status = "completed",
                            ![s].sent = TRUE,
                            ![s].after = streams[s].sent]
       ELSE streams' = [streams EXCEPT ![s].pc = "l95",
                            ![s].after = streams[s].sent]
    /\ UNCHANGED <<generation_status, threads, resp, hist, notUI>>

NextSim ==
    \E st \in ThreadStates :
        \/ SimInit(st)
        \/ SimLoopTest(st)
        \/ SimLoopBody(st)
        \/ SimMarkCompleted(st)
        \/ SimFinish(st)

NextStream ==
    \E s \in Streams :
        \/ OpenStream(s)
        \/ StreamRead(s)
        \/ StreamEmit(s)

NextUI ==
    \/ \E topic \in Topics : Generate(topic)
    \/ NextSim
    \/ Tick
    \/ NextStream

(***************************************************************************)
(* Master.py: cleanup_previous_run                                         *)
(***************************************************************************)
\* lines 30-35 and 37-41
dirs_to_clear == <<"audio", "final_videos", "d3_visualizations", "temp_files">>
files_to_clear == <<"output_script.json", "interactive_page.html", "d3_standalone.html">>

Range(seq) == {seq[k] : k \in DOMAIN seq}

\* line 46: for attempt in range(3)
RmtreeAttempts == 3

NoDir == [exists |-> FALSE, old |-> 0]

\* any state a previous run can have left the working directory in; cleanup
\* is the first statement of main (line 179)
InitCleanup ==
    /\ dirs \in [Range(dirs_to_clear) ->
                    {NoDir} \cup [exists : {TRUE}, old : 0..MaxOldFiles]]
    /\ files \in [Range(files_to_clear) -> BOOLEAN]
    /\ cl = [pc |-> "dir", i |-> 1, attempt |-> 0, tries |-> 0]

IdleCleanup ==
    /\ dirs = [d \in Range(dirs_to_clear) |-> NoDir]
    /\ files = [f \in Range(files_to_clear) |-> FALSE]
    /\ cl = [pc |-> "done", i |-> 1, attempt |-> 0, tries |-> 0]

\* where the directory loop goes after os.makedirs of directory i
AfterDir(i) ==
    IF i < Len(dirs_to_clear)
    THEN [pc |-> "dir", i |-> i + 1, attempt |-> 0, tries |-> 0]
    ELSE [pc |-> "file", i |-> 1, attempt |-> 0, tries |-> 0]

\* line 45: if os.path.exists(directory)
DirTest ==
    /\ cl.pc = "dir"
    /\ cl' = [cl EXCEPT !.pc = IF dirs[dirs_to_clear[cl.i]].exists
                                THEN "rmtree" ELSE "makedirs"]
    /\ UNCHANGED <<dirs, files, notCleanup>>

\* what the retry loop does after a failed attempt (lines 51-53, then line 46)
AfterFailure(attempt) ==
    IF attempt + 1 < RmtreeAttempts THEN "rmtree" ELSE "makedirs"

\* lines 46-53: one attempt of shutil.rmtree.  It removes the tree, or raises
\* after having removed none, some or all of the files in it.
Rmtree ==
    /\ cl.pc = "rmtree"
    /\ LET d == dirs_to_clear[cl.i] IN
       \/ /\ dirs' = [dirs EXCEPT ![d] = NoDir]
          /\ cl' = [cl EXCEPT !.pc = "makedirs", !.tries = @ + 1]
       \/ \E left \in 0..dirs[d].old :
             /\ dirs' = [dirs EXCEPT ![d].old = left]
             /\ cl' = [cl EXCEPT !.pc = AfterFailure(cl.attempt),
                                 !.attempt = @ + 1, !.tries = @ + 1]
    /\ UNCHANGED <<files, notCleanup>>

\* line 54: os.makedirs(directory, exist_ok=True)
Makedirs ==
    /\ cl.pc = "makedirs"
    /\ dirs' = [dirs EXCEPT ![dirs_to_clear[cl.i]].exists = TRUE]
    /\ cl' = AfterDir(cl.i)
    /\ UNCHANGED <<files, notCleanup>>

\* lines 57-63: os.remove succeeds, or raises and leaves the file
RemoveFile ==
    /\ cl.pc = "file"
    /\ LET f == files_to_clear[cl.i] IN
       \/ /\ files[f]
          /\ \E ok \in BOOLEAN : files' = [files EXCEPT ![f] = ~ok]
       \/ /\ ~files[f]
          /\ UNCHANGED <<files, notCleanup>>
    /\ cl' = IF cl.i < Len(files_to_clear)
             THEN [cl EXCEPT !.i = @ + 1]
             ELSE [cl EXCEPT !.pc = "done"]
    /\ UNCHANGED <<dirs, notCleanup>>

NextCleanup ==
    \/ DirTest
    \/ Rmtree
    \/ Makedirs
    \/ RemoveFile

(***************************************************************************)
(* generate_video.py and cloudrun/generate_video.py (the same function     *)
(* concatenate_videos in both), and the /final_video endpoint              *)
(***************************************************************************)
\* An element of video_list, by what the function asks of it: isinstance(v, str),
\* os.path.exists(v), whether VideoFileClip(v) loads, and clip.duration.
Entry(is_str, exists, loads, duration) ==
    [is_str |-> is_str, exists |-> exists, loads |-> loads, duration |-> duration]

VideoEntries ==
    { Entry(FALSE, FALSE, FALSE, 0),     \* not a string
      Entry(TRUE, FALSE, FALSE, 0),      \* no such file
      Entry(TRUE, TRUE, FALSE, 0),       \* a file VideoFileClip cannot load
      Entry(TRUE, TRUE, TRUE, 0),        \* a clip of duration 0
      Entry(TRUE, TRUE, TRUE, 5) }       \* a clip

RECURSIVE SeqsUpTo(_, _)
SeqsUpTo(S, n) ==
    IF n = 0 THEN {<<>>}
    ELSE LET shorter == SeqsUpTo(S, n - 1) IN
         shorter \cup {Append(q, x) : q \in {r \in shorter : Len(r) = n - 1}, x \in S}

\* A value of video_list: a list, or (from the JSON body of a request) a number
JList(items) == [type |-> "list", items |-> items, n |-> 0]
JNumber(n) == [type |-> "number", items |-> <<>>, n |-> n]

VideoLists == {JList(q) : q \in SeqsUpTo(VideoEntries, MaxVideos)}
JsonValues == VideoLists \cup {JNumber(0), JNumber(5)}

\* Python truth value: `not video_list`
Truthy(v) == IF v.type = "list" THEN Len(v.items) > 0 ELSE v.n # 0

\* iter(v), which the generator expression of line 27 evaluates
Iterable(v) == v.type = "list"

ClipUsableZero(e) == e.duration >= 0

\* line 41: if clip.duration > 0
ClipUsable(e) == e.duration > 0

\* lines 34-48: the clips appended, in order
RECURSIVE LoadClips(_)
LoadClips(items) ==
    IF items = <<>> THEN <<>>
    ELSE LET e == Head(items)
             rest == LoadClips(Tail(items))
         IN  IF ~e.exists THEN rest                    \* lines 35-37
             ELSE IF ~e.loads THEN rest                \* lines 46-48
             ELSE IF ClipUsable(e) THEN <<e>> \o rest  \* lines 41-42
             ELSE rest                                 \* lines 43-45

ConcatReturn(ret, clips, written) == [ret |-> ret, clips |-> clips, written |-> written]

\* concatenate_videos, lines 12-85: what it returns ("raise": an exception
\* leaves the function), the clips it loaded, whether output_path was written.
\* compose_ok, write_ok: concatenate_videoclips / write_videofile do not raise.
concatenate_videos(video_list, compose_ok, write_ok) ==
    IF ~Truthy(video_list) THEN ConcatReturn("False", <<>>, FALSE)          \* 23-25
    ELSE IF ~Iterable(video_list) THEN ConcatReturn("raise", <<>>, FALSE)   \* 27
    ELSE IF \E k \in DOMAIN video_list.items : ~video_list.items[k].is_str
         THEN ConcatReturn("False", <<>>, FALSE)                            \* 27-29
    ELSE LET clips == LoadClips(video_list.items) IN
         IF clips = <<>> THEN ConcatReturn("False", clips, FALSE)           \* 50-52
         ELSE IF ~compose_ok THEN ConcatReturn("False", clips, FALSE)       \* 54, 71-73
         ELSE IF ~write_ok THEN ConcatReturn("False", clips, FALSE)         \* 55, 71-73
         ELSE ConcatReturn("True", clips, TRUE)                             \* 68-69

NoCall ==
    [pc |-> "idle", via |-> "", video_list |-> JList(<<>>), compose_ok |-> FALSE,
     write_ok |-> FALSE, concat |-> "none", clips |-> <<>>, written |-> FALSE,
     upload |-> "none", raised |-> FALSE, status |-> 0, url |-> FALSE]

InitVideo == fv = NoCall

IdleVideo == fv = NoCall

\* a call of concatenate_videos with a list, as Master.py line 158 and the
\* __main__ blocks make it
ConcatenateCall(video_list, compose_ok, write_ok) ==
    /\ fv.pc \in {"idle", "responded"}
    /\ LET r == concatenate_videos(video_list, compose_ok, write_ok) IN
       fv' = [NoCall EXCEPT !.pc = "responded", !.via = "call",
                            !.video_list = video_list,
                            !.compose_ok = compose_ok, !.write_ok = write_ok,
                            !.concat = r.ret, !.clips = r.clips, !.written = r.written]
    /\ UNCHANGED notVideo

Respond(state, status) == [state EXCEPT !.pc = "responded", !.status = status]

\* POST /final_video, lines 93-96.  is_dict: request.json is a JSON object;
\* has_key: it has the key "video_list" (data.get defaults to []).
FinalVideoRequest(is_dict, has_key, value) ==
    /\ fv.pc \in {"idle", "responded"}
    /\ LET start == [NoCall EXCEPT !.via = "endpoint"]
           video_list == IF has_key THEN value ELSE JList(<<>>)
           got == [start EXCEPT !.video_list = video_list]
       IN  fv' = IF ~is_dict
                 THEN Respond([start EXCEPT !.raised = TRUE], 500)      \* 116-118
                 ELSE IF ~Truthy(video_list)
                 THEN Respond(got, 400)                                 \* 95-96
                 ELSE [got EXCEPT !.pc = "concat"]
    /\ UNCHANGED notVideo

ConcatFailedNever(result) == FALSE

\* line 102: if not success
ConcatFailed(result) == result # "True"

\* lines 98-103
FinalVideoConcat(makedirs_ok, compose_ok, write_ok) ==
    /\ fv.pc = "concat"
    /\ IF ~makedirs_ok
       THEN fv' = Respond([fv EXCEPT !.raised = TRUE], 500)
       ELSE LET r == concatenate_videos(fv.video_list, compose_ok, write_ok)
                called == [fv EXCEPT !.compose_ok = compose_ok, !.write_ok = write_ok,
                                     !.concat = r.ret, !.clips = r.clips,
                                     !.written = r.written]
            IN  fv' = IF r.ret = "raise"
                      THEN Respond([called EXCEPT !.raised = TRUE], 500)   \* 116-118
                      ELSE IF ConcatFailed(r.ret)
                      THEN Respond(called, 500)                            \* 102-103
                      ELSE [called EXCEPT !.pc = "upload"]
    /\ UNCHANGED notVideo

\* lines 105-114: upload_to_gcs returns the url, or raises
FinalVideoUpload(upload_ok) ==
    /\ fv.pc = "upload"
    /\ fv' = IF upload_ok
             THEN Respond([fv EXCEPT !.upload = "done", !.url = TRUE], 200)
             ELSE Respond([fv EXCEPT !.upload = "failed", !.raised = TRUE], 500)
    /\ UNCHANGED notVideo

NextVideo ==
    \/ \E v \in VideoLists, c, w \in BOOLEAN : ConcatenateCall(v, c, w)
    \/ \E d, k \in BOOLEAN, v \in JsonValues : FinalVideoRequest(d, k, v)
    \/ \E m, c, w \in BOOLEAN : FinalVideoConcat(m, c, w)
    \/ \E u \in BOOLEAN : FinalVideoUpload(u)

(***************************************************************************)
(* text_to_speech.py                                                       *)
(***************************************************************************)
\* a file: whether it exists, and os.path.getsize
Absent == [exists |-> FALSE, size |-> 0]
File(size) == [exists |-> TRUE, size |-> size]

\* line 54: the minimum size of a generated audio file
MinAudioBytes == 1000

\* section.get("text", ""): a missing key or empty text, blanks, a text, null
Texts == {"", "  ", "photosynthesis", JsonNull}

\* What gTTS(...) and tts.save(audio_path) do (lines 44-51): raise or not, and
\* the file they leave at audio_path.
TtsOutcomes ==
    { [raises |-> TRUE, file |-> Absent],
      [raises |-> TRUE, file |-> File(MinAudioBytes - 1)],
      [raises |-> FALSE, file |-> Absent],
      [raises |-> FALSE, file |-> File(MinAudioBytes - 1)],
      [raises |-> FALSE, file |-> File(MinAudioBytes)] }

AudioReturn(ret, file) == [ret |-> ret, file |-> file]

\* line 38: if os.path.exists(audio_path)
UseExisting(file) == file.exists

\* line 54: not os.path.exists(audio_path) or os.path.getsize(audio_path) < 1000
NotCreatedOrTooSmall(file) == ~file.exists \/ file.size < MinAudioBytes

\* generate_audio, lines 18-68, for the file `file` at audio_path: what it
\* returns ("path", "None", or "raise" when an exception leaves it) and the
\* file at audio_path afterwards.  remove_ok: os.remove of line 65 succeeds.
generate_audio(text, file, tts, remove_ok) ==
    IF text = JsonNull THEN AudioReturn("raise", file)            \* 30: None.strip()
    ELSE IF Strip(text) = "" THEN AudioReturn("None", file)       \* 30-32
    ELSE IF UseExisting(file) THEN AudioReturn("path", file)      \* 38-40
    ELSE IF tts.raises \/ NotCreatedOrTooSmall(tts.file)          \* 44-55
         THEN AudioReturn("None",                                 \* 60-68
                  IF tts.file.exists /\ remove_ok THEN Absent ELSE tts.file)
    ELSE AudioReturn("path", tts.file)                            \* 57-58

\* output_script.json: missing, not parseable, parsed to something that is not
\* an object, or an object with these "sections" (the "text" of each)
Script(state, sections) == [state |-> state, sections |-> sections]

Scripts ==
    {Script(st, <<>>) : st \in {"missing", "unreadable", "not_object"}}
        \cup {Script("ok", q) : q \in SeqsUpTo(Texts, MaxSections)}

\* enumerate(sections): the indices
Indices(sections) == 0..(Len(sections) - 1)

NoBatch ==
    [pc |-> "idle", script |-> Script("missing", <<>>), futures |-> <<>>,
     collected |-> {}, success_count |-> 0, ret |-> "none"]

\* the audio directory is empty when the module is first used
InitAudio ==
    /\ audio_fs = [i \in 0..(MaxSections - 1) |-> Absent]
    /\ batch = NoBatch

IdleAudio == InitAudio

BatchReturn(script, ret) == [NoBatch EXCEPT !.pc = "done", !.script = script, !.ret = ret]

\* batch_generate_audio, lines 82-103: load the script and submit one
\* generate_audio per section
BatchStart(script) ==
    /\ batch.pc \in {"idle", "done"}
    /\ batch' =
         IF script.state = "missing" THEN BatchReturn(script, "False")          \* 82-84
         ELSE IF script.state = "unreadable" THEN BatchReturn(script, "False")  \* 86-91
         ELSE IF script.state = "not_object" THEN BatchReturn(script, "raise")  \* 93
         ELSE IF script.sections = <<>> THEN BatchReturn(script, "False")       \* 94-96
         ELSE [NoBatch EXCEPT !.pc = "pool", !.script = script,
                   !.futures = [i \in Indices(script.sections) |-> "pending"]]
    /\ UNCHANGED <<audio_fs, notAudio>>

\* a worker thread runs generate_audio(text, idx) for one submitted section
AudioWorker(i, tts, remove_ok) ==
    /\ batch.pc = "pool"
    /\ i \in DOMAIN batch.futures
    /\ batch.futures[i] = "pending"
    /\ LET r == generate_audio(batch.script.sections[i + 1], audio_fs[i], tts, remove_ok) IN
       /\ batch' = [batch EXCEPT !.futures[i] = r.ret]
       /\ audio_fs' = [audio_fs EXCEPT ![i] = r.file]
    /\ UNCHANGED notAudio

CountsAlways(result) == TRUE

\* lines 108-109: future.result() does not raise and `if result`
Counts(result) == result = "path"

\* lines 105-114: as_completed hands over a future that is done
BatchCollect(i) ==
    /\ batch.pc = "pool"
    /\ i \in DOMAIN batch.futures
    /\ i \notin batch.collected
    /\ batch.futures[i] # "pending"
    /\ batch' = [batch EXCEPT !.collected = @ \cup {i},
                     !.success_count = IF Counts(batch.futures[i]) THEN @ + 1 ELSE @]
    /\ UNCHANGED <<audio_fs, notAudio>>

\* lines 116-118
BatchFinish ==
    /\ batch.pc = "pool"
    /\ batch.collected = DOMAIN batch.futures
    /\ batch' = [batch EXCEPT !.pc = "done",
                     !.ret = IF batch.success_count = Len(batch.script.sections)
                             THEN "True" ELSE "False"]
    /\ UNCHANGED <<audio_fs, notAudio>>

NextAudio ==
    \/ \E script \in Scripts : BatchStart(script)
    \/ \E i \in 0..(MaxSections - 1), tts \in TtsOutcomes, ok \in BOOLEAN :
           AudioWorker(i, tts, ok)
    \/ \E i \in 0..(MaxSections - 1) : BatchCollect(i)
    \/ BatchFinish

(***************************************************************************)
(* Master.py: process_section, generate_final_outputs, main;               *)
(* d3_generator.py: save_html; generate_interactive_page.py                *)
(***************************************************************************)
\* enumerate(script["sections"])
Sections == 0..(MaxSections - 1)

\* A path is <<directory, file name stem, index>>.
AudioPathShared(i) == <<"audio", "audio_section", 0>>

\* text_to_speech.py line 34: audio/audio_section_{section_index}.mp3
AudioPath(i) == <<"audio", "audio_section", i>>

\* Master.py line 91: temp_files/text_anim_{section_index}.mp4
TextAnimPath(i) == <<"temp_files", "text_anim", i>>

\* Master.py line 104: final_videos/section_{section_index}.mp4
SectionVideoPath(i) == <<"final_videos", "section", i>>

\* d3_generator.py line 97: d3_visualizations/section_{section_index+1}.html
D3SavePath(section_index) == <<"d3_visualizations", "section", section_index + 1>>

\* generate_interactive_page.py line 10: d3_visualizations/section_{i}.html
D3PagePath(i) == <<"d3_visualizations", "section", i>>

\* Master.py line 156, generate_interactive_page.py line 3, Master.py line 22
CompleteVideoPath == <<"final_videos", "complete_video", 0>>
PagePath == <<"templates", "interactive_page", 0>>
BACKGROUND_VIDEO == <<"videos", "background", 0>>

MPaths ==
    UNION {{AudioPath(i), TextAnimPath(i), SectionVideoPath(i), D3SavePath(i),
            D3PagePath(i + 1)} : i \in Sections}
        \cup {CompleteVideoPath, PagePath, BACKGROUND_VIDEO}

\* the tasks that run concurrently
SectionTask(i) == <<"process_section", i>>
D3Task(k) == <<"d3_generator", k>>

Acc(task, path, mode) == [task |-> task, path |-> path, mode |-> mode]

NewWorker ==
    [pc |-> "audio", ret |-> "pending", audio |-> "unset", duration |-> "unset",
     anim |-> "unset", overlay |-> "unset"]

NoMain ==
    [pc |-> "pool", video_paths |-> {}, concat |-> "none", complete_written |-> FALSE,
     waited |-> "none", page_i |-> 1, page_ret |-> "none", page_before |-> Absent,
     before |-> [q \in MPaths |-> Absent], ret |-> "none", msg |-> ""]

\* The files cleanup_previous_run can leave in the directories it clears when
\* shutil.rmtree fails three times (Master.py lines 44-52): an audio file (too
\* small or not), a text animation, a section video, the complete video, a
\* D3 page; each as <<path, file>>.
StaleCandidates ==
    UNION {{<<AudioPath(i), File(MinAudioBytes - 1)>>, <<AudioPath(i), File(MinAudioBytes)>>,
            <<TextAnimPath(i), File(MinAudioBytes)>>,
            <<SectionVideoPath(i), File(MinAudioBytes)>>,
            <<D3SavePath(i), File(MinAudioBytes)>>} : i \in Sections}
        \cup {<<CompleteVideoPath, File(MinAudioBytes)>>}

StaleSets ==
    {S \in SUBSET StaleCandidates :
        /\ Cardinality(S) <= MaxStaleFiles
        /\ \A c, e \in S : c[1] = e[1] => c = e}

\* the directory tree that holds the files of `stale`, the background video
\* if bg and the interactive page if page
FilesAtStart(stale, bg, page) ==
    [q \in MPaths |->
        IF (q = BACKGROUND_VIDEO /\ bg) \/ (q = PagePath /\ page) THEN File(MinAudioBytes)
        ELSE IF \E c \in stale : c[1] = q THEN (CHOOSE c \in stale : c[1] = q)[2]
        ELSE Absent]

\* main after cleanup_previous_run and save_script, at line 131: the D3
\* subprocess and the pool have been started.  The output directories are
\* empty, or hold what a failed cleanup has left; the background video and an
\* interactive page of an earlier run (templates/ is never cleared) may exist.
\* mainp.before keeps the files as they are now.
InitMaster ==
    /\ mscript \in [1..MaxSections -> {"  ", "photosynthesis"}]
    /\ \E bg, page \in BOOLEAN, stale \in StaleSets : mfs = FilesAtStart(stale, bg, page)
    /\ workers = [i \in Sections |-> NewWorker]
    /\ d3 = [pc |-> "running", tasks |-> [k \in Sections |-> "pending"]]
    /\ mainp = [NoMain EXCEPT !.page_before = mfs[PagePath], !.before = mfs]
    /\ access = {}

IdleMaster ==
    /\ mscript = <<>>
    /\ mfs = [q \in MPaths |-> Absent]
    /\ workers = [i \in Sections |-> [NewWorker EXCEPT !.pc = "done"]]
    /\ d3 = [pc |-> "exited", tasks |-> [k \in Sections |-> "failed"]]
    /\ mainp = [NoMain EXCEPT !.pc = "done"]
    /\ access = {}

Outcome(ok) == IF ok THEN "ok" ELSE "fail"

Fail(w) == [w EXCEPT !.pc = "done", !.ret = "None"]

\* process_section lines 71-79: generate_audio(section["text"], section_index).
\* `audio` records what the call returns for this text and this TTS outcome
\* on the audio file as it was when the pool started.
SectionAudio(i, tts, remove_ok) ==
    /\ workers[i].pc = "audio"
    /\ LET text == mscript[i + 1]
           q == AudioPath(i)
           r == generate_audio(text, mfs[q], tts, remove_ok)
           alone == generate_audio(text, mainp.before[q], tts, remove_ok)
           w == [workers[i] EXCEPT !.audio = alone.ret]
       IN  /\ mfs' = [mfs EXCEPT ![q] = r.file]
           /\ workers' = [workers EXCEPT ![i] =
                             IF r.ret = "path" THEN [w EXCEPT !.pc = "duration"]
                             ELSE Fail(w)]
           /\ access' = access \cup
                 (IF Strip(text) = "" THEN {}
                  ELSE IF UseExisting(mfs[q]) THEN {Acc(SectionTask(i), q, "r")}
                  ELSE {Acc(SectionTask(i), q, "r"), Acc(SectionTask(i), q, "w")})
    /\ UNCHANGED <<mscript, d3, mainp, notMaster>>

\* lines 82-88: AudioFileClip(audio_path).duration
SectionDuration(i, ok) ==
    /\ workers[i].pc = "duration"
    /\ LET w == [workers[i] EXCEPT !.duration = Outcome(ok)] IN
       workers' = [workers EXCEPT ![i] =
                      IF ok /\ mfs[AudioPath(i)].exists
                      THEN [w EXCEPT !.pc = "anim"] ELSE Fail(w)]
    /\ access' = access \cup {Acc(SectionTask(i), AudioPath(i), "r")}
    /\ UNCHANGED <<mscript, mfs, d3, mainp, notMaster>>

\* what cv2.VideoWriter does in create_text_animation_video (text_animation.py
\* lines 76-96): the video is written, nothing is written (a writer that could
\* not be opened ignores every frame), or an exception is raised
AnimOutcomes == {"written", "nothing", "raises"}

\* text_animation.py lines 87-92: the path if the file exists after writing
AnimReturnsPath(outcome, file_before) ==
    outcome # "raises" /\ (outcome = "written" \/ file_before.exists)

\* lines 91-101: create_text_animation_video writes text_anim_path and returns
\* it, or returns None.  `anim` records what the call returns on the file as
\* it was when the pool started.
SectionAnim(i, outcome) ==
    /\ workers[i].pc = "anim"
    /\ LET q == TextAnimPath(i)
           w == [workers[i] EXCEPT
                    !.anim = Outcome(AnimReturnsPath(outcome, mainp.before[q]))]
       IN  /\ workers' = [workers EXCEPT ![i] =
                             IF AnimReturnsPath(outcome, mfs[q])
                             THEN [w EXCEPT !.pc = "overlay"] ELSE Fail(w)]
           /\ mfs' = IF outcome = "written" THEN [mfs EXCEPT ![q] = File(MinAudioBytes)]
                     ELSE mfs
           /\ access' = access \cup {Acc(SectionTask(i), q, "r")}
                            \cup (IF outcome = "written"
                                  THEN {Acc(SectionTask(i), q, "w")} ELSE {})
    /\ UNCHANGED <<mscript, d3, mainp, notMaster>>

\* Master.py line 110: the background_video_path argument; None when the
\* background video does not exist
BackgroundArg == IF mfs[BACKGROUND_VIDEO].exists THEN "path" ELSE None

\* text_animation.py line 115: os.path.exists(background_video_path) raises
\* TypeError for None; the except clause of line 150 returns False
BackgroundTestRaises(arg) == arg = None

\* lines 104-115: overlay_text_on_video (text_animation.py lines 98-152) reads
\* the text animation, the audio and the background and writes the section video
SectionOverlay(i, ok) ==
    /\ workers[i].pc = "overlay"
    /\ LET w == [workers[i] EXCEPT !.overlay = Outcome(ok)]
           done == /\ mfs[TextAnimPath(i)].exists            \* text_animation.py 101
                   /\ mfs[AudioPath(i)].exists               \* 105
                   /\ ~BackgroundTestRaises(BackgroundArg)   \* 115
                   /\ ok                                     \* 116-133
       IN  /\ workers' = [workers EXCEPT ![i] =
                             IF done THEN [w EXCEPT !.pc = "cleanup"] ELSE Fail(w)]
           /\ mfs' = IF done
                     THEN [mfs EXCEPT ![SectionVideoPath(i)] = File(MinAudioBytes)]
                     ELSE mfs
           /\ access' = access \cup
                 {Acc(SectionTask(i), BACKGROUND_VIDEO, "r"),
                  Acc(SectionTask(i), TextAnimPath(i), "r")}
                 \cup (IF mfs[TextAnimPath(i)].exists
                       THEN {Acc(SectionTask(i), AudioPath(i), "r")} ELSE {})
                 \cup (IF done THEN {Acc(SectionTask(i), SectionVideoPath(i), "w")}
                       ELSE {})
    /\ UNCHANGED <<mscript, d3, mainp, notMaster>>

\* lines 118-125: remove the text animation and return the video path
SectionCleanup(i, remove_ok) ==
    /\ workers[i].pc = "cleanup"
    /\ workers' = [workers EXCEPT ![i].pc = "done", ![i].ret = "path"]
    /\ mfs' = IF mfs[TextAnimPath(i)].exists /\ remove_ok
              THEN [mfs EXCEPT ![TextAnimPath(i)] = Absent] ELSE mfs
    /\ access' = access \cup {Acc(SectionTask(i), TextAnimPath(i), "w")}
    /\ UNCHANGED <<mscript, d3, mainp, notMaster>>

\* d3_generator.py process_section and save_html (lines 93-135) for section k:
\* the html is written, or a failed generation or write leaves no file
D3Section(k, saved) ==
    /\ d3.pc = "running"
    /\ d3.tasks[k] = "pending"
    /\ d3' = [d3 EXCEPT !.tasks[k] = IF saved THEN "saved" ELSE "failed"]
    /\ mfs' = IF saved THEN [mfs EXCEPT ![D3SavePath(k)] = File(MinAudioBytes)] ELSE mfs
    /\ access' = access \cup (IF saved THEN {Acc(D3Task(k), D3SavePath(k), "w")} ELSE {})
    /\ UNCHANGED <<mscript, workers, mainp, notMaster>>

\* d3_generator.py lines 151-155: main returns when every task is done
D3Exit ==
    /\ d3.pc = "running"
    /\ \A k \in Sections : d3.tasks[k] # "pending"
    /\ d3' = [d3 EXCEPT !.pc = "exited"]
    /\ UNCHANGED <<mscript, mfs, workers, mainp, access, notMaster>>

\* What process_section(i) returns when it runs alone: a function of the
\* section's text, of its own files and the background video as they were when
\* the pool started, and of the outcomes of its own calls (TTS, clip loading,
\* animation, composition), of nothing else.
Solo(i) ==
    LET w == workers[i] IN
    IF /\ w.audio = "path"
       /\ w.duration = "ok"
       /\ w.anim = "ok"
       /\ mfs[BACKGROUND_VIDEO].exists
       /\ w.overlay = "ok"
    THEN "path" ELSE "None"

\* Master.py lines 142-152: the results of the pool, once every task is done
CollectResults ==
    /\ mainp.pc = "pool"
    /\ \A i \in Sections : workers[i].pc = "done"
    /\ mainp' = [mainp EXCEPT !.pc = "concat",
                    !.video_paths = {SectionVideoPath(i) : i \in
                                        {j \in Sections : workers[j].ret = "path"}}]
    /\ UNCHANGED <<mscript, mfs, workers, d3, access, notMaster>>

\* sorted(video_paths), each path as concatenate_videos sees it
RECURSIVE SortedEntries(_, _)
SortedEntries(paths, clips_ok) ==
    IF paths = {} THEN <<>>
    ELSE LET first == CHOOSE q \in paths : \A r \in paths : q[3] <= r[3] IN
         <<Entry(TRUE, mfs[first].exists, clips_ok, IF clips_ok THEN 5 ELSE 0)>>
             \o SortedEntries(paths \ {first}, clips_ok)

\* line 155: if video_paths
SkipConcat(video_paths) == video_paths = {}

\* lines 155-160
Concatenate(clips_ok, compose_ok, write_ok) ==
    /\ mainp.pc = "concat"
    /\ IF SkipConcat(mainp.video_paths)
       THEN /\ mainp' = [mainp EXCEPT !.pc = "wait_d3"]
            /\ UNCHANGED mfs
       ELSE LET r == concatenate_videos(
                         JList(SortedEntries(mainp.video_paths, clips_ok)),
                         compose_ok, write_ok)
            IN  IF r.ret = "True"
                THEN /\ mainp' = [mainp EXCEPT !.pc = "wait_d3", !.concat = "True",
                                      !.complete_written = TRUE]
                     /\ mfs' = [mfs EXCEPT ![CompleteVideoPath] = File(MinAudioBytes)]
                ELSE /\ mainp' = [mainp EXCEPT !.pc = "returned", !.concat = r.ret,
                                      !.ret = "False"]
                     /\ UNCHANGED mfs
    /\ UNCHANGED <<mscript, workers, d3, access, notMaster>>

\* lines 163-167: d3_process.wait(timeout=300) returns, or times out while the
\* subprocess is still running
WaitD3 ==
    /\ mainp.pc = "wait_d3"
    /\ mainp' = [mainp EXCEPT !.pc = "page",
                    !.waited = IF d3.pc = "exited" THEN "exited" ELSE "timeout"]
    /\ UNCHANGED <<mscript, mfs, workers, d3, access, notMaster>>

MissingNever(file) == FALSE

\* generate_interactive_page.py line 11: not os.path.exists(d3_file)
Missing(file) == ~file.exists

\* generate_interactive_page.py lines 9-12: one os.path.exists per section
PageCheck ==
    /\ mainp.pc = "page"
    /\ mainp' = IF mainp.page_i > Len(mscript)
                THEN [mainp EXCEPT !.pc = "page_write"]
                ELSE IF Missing(mfs[D3PagePath(mainp.page_i)])
                THEN [mainp EXCEPT !.pc = "page_done", !.page_ret = "None"]  \* 12, 78-80
                ELSE [mainp EXCEPT !.page_i = @ + 1]
    /\ UNCHANGED <<mscript, mfs, workers, d3, access, notMaster>>

\* lines 72-80: os.makedirs, open and write; an exception before open leaves
\* the file alone, one after it leaves a truncated file
PageWrite(outcome) ==
    /\ mainp.pc = "page_write"
    /\ \/ /\ outcome = "ok"
          /\ mainp' = [mainp EXCEPT !.pc = "page_done", !.page_ret = "content"]
          /\ mfs' = [mfs EXCEPT ![PagePath] = File(MinAudioBytes)]
       \/ /\ outcome = "makedirs_raises"
          /\ mainp' = [mainp EXCEPT !.pc = "page_done", !.page_ret = "None"]
          /\ UNCHANGED mfs
       \/ /\ outcome = "write_raises"
          /\ mainp' = [mainp EXCEPT !.pc = "page_done", !.page_ret = "None"]
          /\ mfs' = [mfs EXCEPT ![PagePath] = File(0)]
    /\ UNCHANGED <<mscript, workers, d3, access, notMaster>>

\* Master.py lines 171-175
ReturnOutputs ==
    /\ mainp.pc = "page_done"
    /\ mainp' = [mainp EXCEPT !.pc = "returned",
                    !.ret = IF mainp.page_ret = "content" THEN "True" ELSE "False"]
    /\ UNCHANGED <<mscript, mfs, workers, d3, access, notMaster>>

\* Master.py lines 196-203
Report ==
    /\ mainp.pc = "returned"
    /\ mainp' = [mainp EXCEPT !.pc = "done",
                    !.msg = IF mainp.ret = "True" THEN "Generation Complete!"
                            ELSE "Generation completed with errors"]
    /\ UNCHANGED <<mscript, mfs, workers, d3, access, notMaster>>

NextMaster ==
    \/ \E i \in Sections, tts \in TtsOutcomes, ok \in BOOLEAN : SectionAudio(i, tts, ok)
    \/ \E i \in Sections, ok \in BOOLEAN : SectionDuration(i, ok)
    \/ \E i \in Sections, outcome \in AnimOutcomes : SectionAnim(i, outcome)
    \/ \E i \in Sections, ok \in BOOLEAN : SectionOverlay(i, ok)
    \/ \E i \in Sections, ok \in BOOLEAN : SectionCleanup(i, ok)
    \/ \E k \in Sections, saved \in BOOLEAN : D3Section(k, saved)
    \/ D3Exit
    \/ CollectResults
    \/ \E l, c, w \in BOOLEAN : Concatenate(l, c, w)
    \/ WaitD3
    \/ PageCheck
    \/ \E outcome \in {"ok", "makedirs_raises", "write_raises"} : PageWrite(outcome)
    \/ ReturnOutputs
    \/ Report

(***************************************************************************)
(* d3_generator.py: clean_response, review_and_optimize_code               *)
(***************************************************************************)
\* A text is a sequence of tokens: a blank, the markdown fences ([fence] stands
\* for three backquotes), a piece of code, and the phrases the function looks for.
Blank == " "
AnswerTokens ==
    {Blank, "[fence]", "[fence]html", "[fence]js", "<svg/>", "CODE_OPTIMIZED", "code_optimized",
     "code is optimized", "code_optmized"}

Answers == SeqsUpTo(AnswerTokens, MaxAnswerLen)

\* the code handed to the reviewer: never empty (process_section, line 120)
GeneratedCodes == {<<"<old/>">>, <<"<old/>", Blank, "<old/>">>}

\* str.lower()
LowerToken(token) == IF token = "CODE_OPTIMIZED" THEN "code_optimized" ELSE token

Lower(text) == [k \in DOMAIN text |-> LowerToken(text[k])]

\* line 85: marker in text
Contains(marker, text) == \E k \in DOMAIN text : text[k] = marker

\* lines 21-22: re.sub removes every fence and an html tag that follows it;
\* any other language tag stays
RECURSIVE RemoveFences(_)
RemoveFences(text) ==
    IF text = <<>> THEN <<>>
    ELSE (IF Head(text) \in {"[fence]", "[fence]html"} THEN <<>>
          ELSE IF Head(text) = "[fence]js" THEN <<"js">>
          ELSE <<Head(text)>>) \o RemoveFences(Tail(text))

\* str.strip()
RECURSIVE StripText(_)
StripText(text) ==
    IF text = <<>> THEN <<>>
    ELSE IF Head(text) = Blank THEN StripText(Tail(text))
    ELSE IF text[Len(text)] = Blank THEN StripText(SubSeq(text, 1, Len(text) - 1))
    ELSE text

\* clean_response, lines 18-26
clean_response(text) == StripText(RemoveFences(text))

\* what model.generate_content and response.text do (lines 82-84): raise, or
\* give the reviewer's answer
ReviewOutcomes ==
    {[raises |-> TRUE, text |-> <<>>]} \cup {[raises |-> FALSE, text |-> t] : t \in Answers}

\* line 85
AlreadyOptimized(reviewed) ==
    \/ Contains("code_optmized", Lower(reviewed))
    \/ Contains("code is optimized", Lower(reviewed))
    \/ Contains("CODE_OPTIMIZED", reviewed)

\* review_and_optimize_code, lines 69-91: the value returned
review_and_optimize_code(generated_code, outcome) ==
    IF outcome.raises THEN generated_code                         \* 89-91
    ELSE LET reviewed == clean_response(outcome.text) IN          \* 84
         IF AlreadyOptimized(reviewed) THEN generated_code        \* 85-86
         ELSE reviewed                                            \* 88

NoReview ==
    [pc |-> "idle", generated_code |-> <<>>, outcome |-> [raises |-> TRUE, text |-> <<>>],
     ret |-> <<>>]

InitReview == review = NoReview

IdleReview == InitReview

\* d3_generator.process_section line 125 calls review_and_optimize_code
ReviewCall(generated_code, outcome) ==
    /\ review.pc = "idle"
    /\ review' = [pc |-> "called", generated_code |-> generated_code,
                  outcome |-> outcome, ret |-> <<>>]
    /\ UNCHANGED notReview

\* the call returns
ReviewReturn ==
    /\ review.pc = "called"
    /\ review' = [review EXCEPT !.pc = "returned",
                     !.ret = review_and_optimize_code(review.generated_code, review.outcome)]
    /\ UNCHANGED notReview

NextReview ==
    \/ \E generated_code \in GeneratedCodes, outcome \in ReviewOutcomes :
           ReviewCall(generated_code, outcome)
    \/ ReviewReturn

(***************************************************************************)
(* Specifications                                                          *)
(***************************************************************************)
IdleUI == InitUI

Init == InitUI /\ IdleCleanup /\ IdleVideo /\ IdleAudio /\ IdleMaster /\ IdleReview

Next == NextUI

Spec == Init /\ [][Next]_vars

\* POST /generate and the simulate_generation threads alone: a /progress
\* stream only reads generation_status (main.py lines 94-99), so the requests
\* and the threads behave the same with no stream open.
NextGenerate ==
    \/ \E topic \in Topics : Generate(topic)
    \/ NextSim
    \/ Tick

SpecGenerate == Init /\ [][NextGenerate]_vars

InitC == IdleUI /\ InitCleanup /\ IdleVideo /\ IdleAudio /\ IdleMaster /\ IdleReview

SpecCleanup == InitC /\ [][NextCleanup]_vars

InitV == IdleUI /\ IdleCleanup /\ InitVideo /\ IdleAudio /\ IdleMaster /\ IdleReview

SpecVideo == InitV /\ [][NextVideo]_vars

InitA == IdleUI /\ IdleCleanup /\ IdleVideo /\ InitAudio /\ IdleMaster /\ IdleReview

SpecAudio == InitA /\ [][NextAudio]_vars

InitM == IdleUI /\ IdleCleanup /\ IdleVideo /\ IdleAudio /\ InitMaster /\ IdleReview

SpecMaster == InitM /\ [][NextMaster]_vars

InitR == IdleUI /\ IdleCleanup /\ IdleVideo /\ IdleAudio /\ IdleMaster /\ InitReview

SpecReview == InitR /\ [][NextReview]_vars

\* The interpreter schedules every thread that can run, every open response
\* generator is polled by its client, and time passes.  Requests and the
\* opening of a stream are up to the clients: no fairness.
SimStep(st) ==
    SimInit(st) \/ SimLoopTest(st) \/ SimLoopBody(st) \/ SimMarkCompleted(st) \/ SimFinish(st)

StreamStep(s) == StreamRead(s) \/ StreamEmit(s)

FairNextUI ==
    \/ \E topic \in Topics : GenerateUpTo(topic, MaxFairRequests)
    \/ NextSim
    \/ Tick
    \/ NextStream

FairNext == FairNextUI

Fairness ==
    /\ \A st \in ThreadStates : WF_vars(SimStep(st))
    /\ \A s \in Streams : WF_vars(StreamStep(s))
    /\ WF_vars(Tick)

FairSpec == Init /\ [][FairNext]_vars /\ Fairness

(***************************************************************************)
(* Claims                                                                  *)
(***************************************************************************)

\* C1: at most one simulate_generation thread has been started and has not yet
\* returned, under every interleaving of /generate requests (a request that
\* arrives while an earlier generation is unfinished is rejected with 429).
C1_AtMostOneThread == Running <= 1

\* C11: a POST /generate whose topic is missing, empty or only whitespace is
\* answered with 400 and changes neither generation_status nor the threads nor
\* the streams, whether or not a generation is in progress.
C11_BlankTopicRejected ==
    [][(hist'.req \in {"", "  "} /\ <<resp, hist>>' # <<resp, hist>>) =>
           (resp' = 400 /\ UNCHANGED <<generation_status, threads, streams>>)]_vars

C11_Witness ==
    /\ resp = 400
    /\ hist.req = "  "
    /\ generation_status.in_progress
    /\ Running = 1
    /\ generation_status.progress > 0

\* C12: every event a /progress stream emits with status 'completed' carries
\* progress 100 and the message 'Simulation complete!'.
C12_CompletedEventIsFinal ==
    \A s \in Streams :
        streams[s].data.status = "completed" =>
            /\ streams[s].data.progress = 100
            /\ streams[s].data.message = Msg("Simulation complete!", -1)

\* C13: a stream opened after a request was accepted that follows a completed
\* generation does not emit 'completed' before a generation has completed
\* since that request was accepted.
C13_NoStaleCompletion ==
    \A s \in Streams :
        ~(streams[s].sent /\ streams[s].watch # -1 /\ streams[s].watch = Finished)

\* C14: when videos/background.mp4 does not exist, a section whose audio,
\* duration, text animation and composition all succeed returns its video path
\* and its video has been written.
C14_SucceedsWithoutBackground ==
    \A i \in Sections :
        (/\ workers[i].pc = "done"
         /\ ~mfs[BACKGROUND_VIDEO].exists
         /\ workers[i].audio = "path"
         /\ workers[i].duration = "ok"
         /\ workers[i].anim = "ok"
         /\ workers[i].overlay = "ok")
            => (workers[i].ret = "path" /\ mfs[SectionVideoPath(i)].exists)

\* C15: review_and_optimize_code returns the generated code unchanged when the
\* review call raises or when the reviewer's answer contains CODE_OPTIMIZED
\* (in any letter case), and returns the answer without its markdown fences
\* and surrounding blanks otherwise.
C15_ReviewResult ==
    review.pc = "returned" =>
        LET answer == review.outcome.text
            signals == Contains("code_optimized", Lower(answer))
        IN  /\ review.outcome.raises => review.ret = review.generated_code
            /\ (~review.outcome.raises /\ signals) => review.ret = review.generated_code
            /\ (~review.outcome.raises /\ ~signals) => review.ret = clean_response(answer)

\* C2: whenever main reports 'Generation Complete', final_videos/complete_video.mp4
\* has been written by concatenate_videos during this run.
C2_CompleteVideoWritten ==
    mainp.msg = "Generation Complete!" =>
        (mainp.complete_written /\ mfs[CompleteVideoPath].exists)

\* C3: process_section(i) writes only audio/audio_section_i.mp3,
\* temp_files/text_anim_i.mp4 and final_videos/section_i.mp4, the D3 subprocess
\* writes only d3_visualizations/section_k.html, no file written by one task
\* is read or written by another, and the value every finished section returns
\* is the one it returns when it runs alone, whatever the interleaving.
C3_TasksIndependent ==
    /\ \A a \in access :
          (a.task[1] = "process_section" /\ a.mode = "w") =>
              a.path \in {<<"audio", "audio_section", a.task[2]>>,
                          <<"temp_files", "text_anim", a.task[2]>>,
                          <<"final_videos", "section", a.task[2]>>}
    /\ \A a \in access :
          a.task[1] = "d3_generator" =>
              (a.mode = "w" /\ a.path = <<"d3_visualizations", "section", a.task[2] + 1>>)
    /\ \A a, b \in access :
          (a.task # b.task /\ a.path = b.path) => (a.mode = "r" /\ b.mode = "r")
    /\ \A a \in access, i \in Sections :
          a.path \in {<<"audio", "audio_section", i>>,
                      <<"temp_files", "text_anim", i>>,
                      <<"final_videos", "section", i>>} => a.task = SectionTask(i)
    /\ \A i \in Sections : workers[i].pc = "done" => workers[i].ret = Solo(i)

C3_Witness ==
    /\ \A i \in Sections : workers[i].pc = "done"
    /\ workers[0].ret = "path"
    /\ \E i \in Sections : workers[i].ret = "None" /\ workers[i].overlay = "fail"
    /\ \E k \in Sections : d3.tasks[k] = "saved"
    /\ \E a, b \in access : a.task = SectionTask(0) /\ b.task = SectionTask(1)

\* C9: generate_interactive_final_page returns the content, with the page
\* written, only if d3_visualizations/section_i.html exists for every i in
\* 1..N; when one of them is missing it returns None and leaves the output
\* file as it was; every call ends with a return value, never an exception.
C9_PageOnlyWithAllD3Files ==
    /\ mainp.page_ret = "content" =>
          /\ \A i \in 1..Len(mscript) : mfs[<<"d3_visualizations", "section", i>>].exists
          /\ mfs[PagePath].exists
    /\ (/\ mainp.pc = "page_done"
        /\ \E i \in 1..Len(mscript) : ~mfs[<<"d3_visualizations", "section", i>>].exists)
          => (mainp.page_ret = "None" /\ mfs[PagePath] = mainp.page_before)
    /\ mainp.pc = "page_done" => mainp.page_ret \in {"content", "None"}

C9_Witness ==
    /\ mainp.pc = "page_done"
    /\ mainp.page_ret = "content"
    /\ mainp.waited = "timeout"

\* C4: when cleanup_previous_run has returned, every output directory exists
\* and holds no file of a previous run and none of the output files exists,
\* whatever the removal attempts did.
C4_CleanAfterCleanup ==
    cl.pc = "done" =>
        /\ \A d \in Range(dirs_to_clear) : dirs[d].exists /\ dirs[d].old = 0
        /\ \A f \in Range(files_to_clear) : ~files[f]

\* a listed file that exists and loads with a positive duration
ValidClip(e) == e.is_str /\ e.exists /\ e.loads /\ e.duration > 0

\* what C5 says of a call that has returned: the result is a bool; False for
\* an empty list, for a non-string element, when no listed file is a valid clip,
\* when composing or writing fails; True exactly when the output was written
\* from at least one valid clip.
ConcatContract ==
    LET items == fv.video_list.items IN
    /\ fv.concat \in {"True", "False"}
    /\ Len(items) = 0 => fv.concat = "False"
    /\ (\E k \in DOMAIN items : ~items[k].is_str) => fv.concat = "False"
    /\ (~\E k \in DOMAIN items : ValidClip(items[k])) => fv.concat = "False"
    /\ (~fv.compose_ok \/ ~fv.write_ok) => fv.concat = "False"
    /\ fv.concat = "True" <=>
          /\ fv.written
          /\ Len(fv.clips) > 0
          /\ \A k \in DOMAIN fv.clips : ValidClip(fv.clips[k])
    /\ fv.concat = "True" <=>
          /\ \A k \in DOMAIN items : items[k].is_str
          /\ \E k \in DOMAIN items : ValidClip(items[k])
          /\ fv.compose_ok /\ fv.write_ok

\* C5 (as stated): concatenate_videos never raises and returns True iff the
\* concatenation succeeded, for every video_list it is called with.
C5_NeverRaises == fv.concat # "none" => ConcatContract

\* C5 (amended): for every video_list that is a list, concatenate_videos never
\* raises and returns True iff the concatenation succeeded (False for an empty
\* list, a non-string element, no valid clip, a failed compose or write).
C5_ListNeverRaises ==
    (fv.concat # "none" /\ fv.video_list.type = "list") => ConcatContract

C5_Witness ==
    /\ fv.via = "call"
    /\ fv.concat = "True"
    /\ fv.written
    /\ Len(fv.video_list.items) = 2
    /\ Len(fv.clips) = 1

\* C6: batch_generate_audio returns True iff generate_audio returned a path for
\* every section; False when the script is missing or unreadable, when it has
\* no sections, or when a section (an empty or blank text included) produced
\* no audio, in whatever order the workers complete.
C6_BatchResult ==
    (batch.pc = "done" /\ batch.ret # "raise") =>
        LET sections == batch.script.sections IN
        /\ batch.ret \in {"True", "False"}
        /\ batch.ret = "True" <=>
              /\ batch.script.state = "ok"
              /\ sections # <<>>
              /\ DOMAIN batch.futures = Indices(sections)
              /\ \A i \in Indices(sections) : batch.futures[i] = "path"
        /\ batch.script.state \in {"missing", "unreadable"} => batch.ret = "False"
        /\ sections = <<>> => batch.ret = "False"
        /\ (\E k \in DOMAIN sections : Strip(sections[k]) = "") => batch.ret = "False"

C6_Witness ==
    /\ batch.pc = "done"
    /\ batch.ret = "True"
    /\ Len(batch.script.sections) = MaxSections
    /\ \A i \in DOMAIN batch.futures : batch.futures[i] = "path"

\* C10: whenever generate_audio has returned a path, the file at that path
\* exists and is at least 1000 bytes long, also when a file for that section
\* index existed before the call.
C10_ReturnedAudioIsValid ==
    \A i \in DOMAIN batch.futures :
        batch.futures[i] = "path" =>
            (audio_fs[i].exists /\ audio_fs[i].size >= MinAudioBytes)

\* C7: in /final_video the upload happens only after concatenate_videos
\* returned True; a missing or empty video_list yields 400 with neither
\* concatenation nor upload; a failed concatenation yields 500 with no upload;
\* 200 with a url is returned only after the upload completed; any exception
\* yields 500.
C7_UploadAfterConcat ==
    fv.via = "endpoint" =>
        /\ fv.upload # "none" => fv.concat = "True"
        /\ fv.pc = "upload" => fv.concat = "True"
        /\ (fv.pc = "responded" /\ ~fv.raised /\ ~Truthy(fv.video_list))
              => (fv.status = 400 /\ fv.concat = "none" /\ fv.upload = "none")
        /\ fv.status = 400 => (fv.concat = "none" /\ fv.upload = "none")
        /\ fv.concat = "False"
              => (fv.pc = "responded" /\ fv.status = 500 /\ fv.upload = "none")
        /\ (fv.status = 200 \/ fv.url)
              => (fv.status = 200 /\ fv.url /\ fv.upload = "done" /\ fv.concat = "True")
        /\ fv.raised => (fv.pc = "responded" /\ fv.status = 500)

C7_Witness ==
    /\ fv.via = "endpoint"
    /\ fv.status = 200
    /\ fv.upload = "done"
    /\ fv.concat = "True"

\* C8: once a generation has run to its end and no thread is pending or
\* running, every open /progress stream eventually yields a 'completed' event
\* and is closed, unless a further generation is started; and no stream
\* yields an event after its 'completed' event.
C8_StreamsComplete ==
    /\ \A s \in Streams :
          (streams[s].pc # "idle" /\ Started > 0 /\ Running = 0)
              ~> ((streams[s].sent /\ streams[s].pc = "closed") \/ Running > 0)
    /\ [](\A s \in Streams : ~streams[s].after
                              /\ (streams[s].sent => streams[s].pc = "closed"))

C8_Witness ==
    \E s \in Streams :
        /\ streams[s].sent
        /\ streams[s].pc = "closed"
        /\ streams[s].data.status = "completed"
        /\ Started > 0
        /\ Running = 0

====
